---- MODULE Spec2Model ----
(***************************************************************************)
(* Connection, matchmaking and relay server of StudentChatter              *)
(* (src/server/routes.ts over the in-memory store src/server/storage.ts).  *)
(*                                                                         *)
(* Every WebSocket callback is an async function.  A callback runs         *)
(* synchronously up to its next `await`; the call it awaits has already    *)
(* run its own synchronous part (all MemStorage methods are synchronous    *)
(* up to their return, except createRoom, which awaits inside its loop).   *)
(* A handler in progress is a task record whose pc names the await it is   *)
(* suspended at; one step of the model resumes one task and runs it to its *)
(* next await.  Two consecutive awaits with no read or write of shared     *)
(* state between them are one suspension point.                            *)
(***************************************************************************)
EXTENDS Integers, Sequences, FiniteSets, TLC

\* ---------------------------------------------------------------- bounds
NumUsers == 3   \* registered, verified accounts 1..NumUsers
NumConns == 3   \* transports accepted during one behaviour
MaxRooms == 2   \* rooms created during one behaviour
MaxTasks == 2   \* handlers suspended at an await at the same time
MaxMessages == 1 \* chat messages stored during one behaviour
MaxChatMessages == 2 \* chat messages stored during a behaviour of SpecG
MaxChatEvents == 4 \* counted events of a behaviour of SpecG
MaxSeqEvents == 4 \* counted events of a behaviour of SpecSeq
MaxEvents == 3  \* counted events of a behaviour of Spec
MaxOverlap == 1 \* of these, taken while another handler is suspended
MaxOwnEvents == 5 \* counted events of a behaviour of SpecB
MaxAuthEvents == 3 \* counted events of a behaviour of SpecD

Users == 1..NumUsers
Conns == 1..NumConns
Texts == {1, 2}
BogusRoomId == MaxRooms + 1   \* a room id no createRoom ever returned
RoomIds == 1..MaxRooms
Slots == 1..MaxTasks

VARIABLES
  clients,          \* routes.ts:25   Map<number, SocketClient>; 0 = no entry
  readyState,       \* per transport: "NONE" (not yet accepted), "OPEN", "CLOSED"
  wsUserId,         \* SocketClient.userId, 0 = undefined
  wsRoomId,         \* SocketClient.roomId, 0 = undefined
  isAuthenticated,  \* routes.ts:44   closure variable of the connection
  authTimeout,      \* routes.ts:47   "armed", "cleared" or "fired"
  waitingPool,      \* storage.ts:40  Set<number>
  rooms,            \* storage.ts:39  Map<string, ChatRoom> in insertion order
  isOnline,         \* storage.ts:82  User.isOnline
  messages,         \* storage.ts:38  Message[]
  tasks,            \* handlers suspended at an await
  out,              \* frames written to sockets by the last step
  matchCount,       \* history: match frames written to each socket
  events,           \* history: counted inbound frames and closes so far
  overlaps          \* history: those taken while a handler was suspended

vars == <<clients, readyState, wsUserId, wsRoomId, isAuthenticated,
          authTimeout, waitingPool, rooms, isOnline, messages, tasks, out, matchCount, events,
          overlaps>>

\* ---------------------------------------------------------------- frames
\* a frame written to socket `to`.  req, from and (on error and relayed
\* frames) roomId are history: the request type answered, the socket the
\* request came in on and the room id it named or resolved
Ev(to, type) ==
  [to |-> to, type |-> type, msg |-> "", roomId |-> 0, partner |-> 0,
   id |-> 0, senderId |-> 0, text |-> 0, from |-> 0, req |-> ""]

ErrorEv(to, msg) == [Ev(to, "error") EXCEPT !.msg = msg]

\* the error frame answering a message or signal request
RelayError(to, msg, req, roomId) ==
  [ErrorEv(to, msg) EXCEPT !.req = req, !.roomId = roomId, !.from = to]

\* ws.send: a frame is written only while the socket is OPEN
Send(ev) == IF readyState[ev.to] = "OPEN" THEN <<ev>> ELSE <<>>

\* ---------------------------------------------------------------- tasks
IdleTask ==
  [pc |-> "idle", kind |-> "", conn |-> 0, userId |-> 0, roomId |-> 0,
   text |-> 0, partnerId |-> 0, room |-> 0, found |-> 0, i |-> 0,
   newMessage |-> 0, snap |-> {}]

NewTask(kind, c, userId) ==
  [IdleTask EXCEPT !.kind = kind, !.conn = c, !.userId = userId]

NoTask == \A s \in Slots : tasks[s].pc = "idle"
FreeSlot(s) == /\ tasks[s].pc = "idle"
               /\ \A r \in Slots : r < s => tasks[r].pc # "idle"

\* the task in slot s is suspended at pc p (of any handler kind)
At(s, p) == tasks[s].pc = p

Suspend(s, t) == tasks' = [tasks EXCEPT ![s] = t]
Finish(s) == tasks' = [tasks EXCEPT ![s] = IdleTask]

\* number of rooms that handlers in progress may still create
PendingRooms ==
  Cardinality({s \in Slots : tasks[s].kind \in {"join-waiting", "next"}
                             /\ tasks[s].room = 0})
PendingMessages ==
  Cardinality({s \in Slots : tasks[s].kind = "message"
                             /\ tasks[s].pc = "msg_room"})

\* ---------------------------------------------------------------- storage.ts
\* a closeRoom that flips the active flag instead of clearing it
closeRoomFlips(rs, roomId) ==
  IF roomId \in 1..Len(rs)
  THEN [rs EXCEPT ![roomId].active = ~rs[roomId].active] ELSE rs

\* MemStorage.closeRoom
closeRoom(rs, roomId) ==
  IF roomId \in 1..Len(rs) THEN [rs EXCEPT ![roomId].active = FALSE] ELSE rs

\* MemStorage.getRoomById: the id of the record, 0 = undefined
getRoomById(roomId) == IF roomId \in 1..Len(rooms) THEN roomId ELSE 0

\* room.participants.includes
Includes(room, u) == room.participants[1] = u \/ room.participants[2] = u

\* MemStorage.createRoom, loop test of one entry
MustClose(room, userId1, userId2) ==
  Includes(room, userId1) \/ Includes(room, userId2)

\* the entries the for-of loop of createRoom still visits from position i on
NextToClose(i, userId1, userId2) ==
  {j \in i..Len(rooms) : MustClose(rooms[j], userId1, userId2)}

Min(S) == CHOOSE x \in S : \A y \in S : x <= y

\* room.participants.find(id => id !== userId), 0 = undefined
FindPartner(room, userId) ==
  IF room.participants[1] # userId THEN room.participants[1]
  ELSE IF room.participants[2] # userId THEN room.participants[2]
  ELSE 0

\* MemStorage.getRoomByParticipant
getRoomByParticipant(u) ==
  {r \in 1..Len(rooms) : rooms[r].active /\ Includes(rooms[r], u)}

\* the record createRoom inserts (id = position, createdAt not modelled)
NewRoom(userId1, userId2) ==
  [participants |-> <<userId1, userId2>>, active |-> TRUE]

\* ---------------------------------------------------------------- Init
Init ==
  /\ clients = [u \in Users |-> 0]
  /\ readyState = [c \in Conns |-> "NONE"]
  /\ wsUserId = [c \in Conns |-> 0]
  /\ wsRoomId = [c \in Conns |-> 0]
  /\ isAuthenticated = [c \in Conns |-> FALSE]
  /\ authTimeout = [c \in Conns |-> "cleared"]
  /\ waitingPool = {}
  /\ rooms = <<>>
  /\ isOnline = [u \in Users |-> FALSE]
  /\ messages = <<>>
  /\ tasks = [s \in Slots |-> IdleTask]
  /\ out = <<>>
  /\ matchCount = [c \in Conns |-> 0]
  /\ events = 0
  /\ overlaps = 0

\* a transport that was accepted and has not started a handler yet
Fresh(c) ==
  /\ readyState[c] = "OPEN"
  /\ wsUserId[c] = 0
  /\ ~isAuthenticated[c]
  /\ \A s \in Slots : tasks[s].conn # c

\* wss.on('connection').  Transports are taken in index order, and the next
\* one is accepted only when no accepted one is still fresh: accepting a
\* socket commutes with every step up to that socket's first frame
Connect(c) ==
  /\ readyState[c] = "NONE"
  /\ \A d \in Conns : d < c => readyState[d] # "NONE" /\ ~Fresh(d)
  /\ readyState' = [readyState EXCEPT ![c] = "OPEN"]
  /\ authTimeout' = [authTimeout EXCEPT ![c] = "armed"]
  /\ out' = <<>>
  /\ UNCHANGED <<clients, wsUserId, wsRoomId, isAuthenticated, waitingPool,
                 rooms, isOnline, messages, tasks>>
  /\ UNCHANGED <<matchCount, events, overlaps>>

\* ---------------------------------------------------------------- accounts
\* storage.getUser: accounts 1..NumUsers are registered and verified, one
\* account is registered but unverified, one id is not registered
UnverifiedId == NumUsers + 1
UnknownId == NumUsers + 2
AuthIds == Users \cup {UnverifiedId, UnknownId}
Registered(u) == u \in Users \cup {UnverifiedId}
Verified(u) == u \in Users

\* routes.ts:78  the gate in front of every message type but auth
Gate(c) == ~(~isAuthenticated[c] /\ wsUserId[c] = 0)

\* routes.ts:389, 420, 584 without the check of ws.userId
IdentOkUnchecked(c, userId) == TRUE

\* routes.ts:389, 420, 584  !ws.userId || ws.userId !== userId
IdentOk(c, userId) == wsUserId[c] # 0 /\ wsUserId[c] = userId

\* the handlers without the check of the roomId the frame names
RoomOkSkipped(c, roomId) == TRUE

\* routes.ts:491, 542  !ws.roomId || ws.roomId !== roomId
RoomOk(c, roomId) == wsRoomId[c] # 0 /\ wsRoomId[c] = roomId

\* account ids the state mentions
Present ==
  {u \in Users :
     \/ clients[u] # 0
     \/ isOnline[u]
     \/ u \in waitingPool
     \/ \E c \in Conns : wsUserId[c] = u
     \/ \E r \in 1..Len(rooms) : Includes(rooms[r], u)
     \/ \E m \in 1..Len(messages) :
          u \in {messages[m].senderId, messages[m].receiverId}
     \/ \E s \in Slots : u = tasks[s].userId \/ u = tasks[s].partnerId
                          \/ u \in tasks[s].snap}

\* account ids are opaque and all verified accounts alike, so an auth frame
\* that brings in an id the state does not mention takes the least such id
Canonical(userId) ==
  userId \in Present \/ \A v \in Users \ Present : userId <= v

\* ---------------------------------------------------------------- event budget
\* a behaviour of mode m takes at most m.max counted events.  The first auth
\* frame of a transport is not counted (free).  An event taken while a
\* handler is suspended at an await overlaps it; at most MaxOverlap events
\* of a behaviour do, and m.over says which may:
\*   "none"  none: every handler runs to completion before the next event
\*   "read"  a frame on a socket that has a handler suspended: frames that
\*           one read of the socket delivers are dispatched one after the
\*           other, each handler running up to its first await; between two
\*           reads the awaits of MemStorage, which resolve at once, let every
\*           handler finish
\*   "any"   any event: a storage whose promises resolve later
\* m.msgs is the number of chat messages a behaviour stores at most
ModeSpec == [max |-> MaxEvents, over |-> "any", msgs |-> MaxMessages]
ModeRead == [max |-> MaxEvents, over |-> "read", msgs |-> MaxMessages]
ModeSeq == [max |-> MaxSeqEvents, over |-> "none", msgs |-> MaxMessages]
ModeOwn == [max |-> MaxOwnEvents, over |-> "none", msgs |-> MaxMessages]
ModeAuth == [max |-> MaxAuthEvents, over |-> "none", msgs |-> MaxMessages]
ModeChat == [max |-> MaxChatEvents, over |-> "read", msgs |-> MaxChatMessages]

\* c is the socket the frame arrives on, 0 for an event that is no frame
Take(m, c, free) ==
  /\ IF free THEN UNCHANGED events
     ELSE events < m.max /\ events' = events + 1
  /\ IF NoTask THEN UNCHANGED overlaps
     ELSE /\ \/ m.over = "any"
             \/ /\ m.over = "read"
                /\ \E s \in Slots : tasks[s].pc # "idle" /\ tasks[s].conn = c
          /\ overlaps < MaxOverlap
          /\ overlaps' = overlaps + 1
  /\ UNCHANGED matchCount

\* ---------------------------------------------------------------- auth
\* ws.on('message'), type auth: handleAuth up to `await storage.getUser`
RecvAuth(m, c, userId) ==
  /\ Take(m, c, Fresh(c))
  /\ readyState[c] = "OPEN"
  /\ userId \in Users => Canonical(userId)
  /\ \E s \in Slots :
       /\ FreeSlot(s)
       /\ Suspend(s, [NewTask("auth", c, userId) EXCEPT !.pc = "auth_getUser"])
  /\ out' = <<>>
  /\ UNCHANGED <<clients, readyState, wsUserId, wsRoomId, isAuthenticated,
                 authTimeout, waitingPool, rooms, isOnline, messages>>

\* handleAuth after getUser: reject, or bind and mark online; the task is
\* then suspended until the callback's `await handleAuth` resumes
AuthGetUser(s) ==
  /\ At(s, "auth_getUser")
  /\ LET t == tasks[s]
         c == t.conn
     IN  /\ IF ~Registered(t.userId)
            THEN /\ out' = Send(ErrorEv(c, "Authentication failed: User not found"))
                 /\ UNCHANGED <<wsUserId, clients, isOnline>>
            ELSE IF ~Verified(t.userId)
            THEN /\ out' = Send(ErrorEv(c, "Email not verified"))
                 /\ UNCHANGED <<wsUserId, clients, isOnline>>
            ELSE /\ wsUserId' = [wsUserId EXCEPT ![c] = t.userId]
                 /\ clients' = [clients EXCEPT ![t.userId] = c]
                 /\ isOnline' = [isOnline EXCEPT ![t.userId] = TRUE]
                 /\ out' = <<>>
         /\ Suspend(s, [t EXCEPT !.pc = "auth_return"])
  /\ UNCHANGED <<readyState, wsRoomId, isAuthenticated, authTimeout,
                 waitingPool, rooms, messages>>
  /\ UNCHANGED <<matchCount, events, overlaps>>

\* routes.ts:65-72  after handleAuth returned, whatever it did
AuthReturn(s) ==
  /\ At(s, "auth_return")
  /\ LET t == tasks[s]
     IN  /\ isAuthenticated' = [isAuthenticated EXCEPT ![t.conn] = TRUE]
         /\ authTimeout' = [authTimeout EXCEPT ![t.conn] =
                              IF @ = "armed" THEN "cleared" ELSE @]
         /\ Suspend(s, [t EXCEPT !.pc = "auth_success"])
  /\ out' = <<>>
  /\ UNCHANGED <<clients, readyState, wsUserId, wsRoomId, waitingPool,
                 rooms, isOnline, messages>>
  /\ UNCHANGED <<matchCount, events, overlaps>>

\* routes.ts:70-74  the auth-success frame; partner carries the user sent
AuthSuccess(s) ==
  /\ At(s, "auth_success")
  /\ LET t == tasks[s]
     IN  out' = Send([Ev(t.conn, "auth-success") EXCEPT
                        !.partner = IF Registered(t.userId) THEN t.userId ELSE 0])
  /\ Finish(s)
  /\ UNCHANGED <<clients, readyState, wsUserId, wsRoomId, isAuthenticated,
                 authTimeout, waitingPool, rooms, isOnline, messages>>
  /\ UNCHANGED <<matchCount, events, overlaps>>

\* ---------------------------------------------------------------- join-waiting
\* handleJoinWaiting up to `await storage.addToWaitingPool`, entered from the
\* message callback (t is a fresh task) or from handleNext (t is its task,
\* sent holds the frames handleNext wrote in the same step)
handleJoinWaiting(s, t, sent) ==
  IF ~IdentOk(t.conn, t.userId)
  THEN /\ out' = sent \o Send(ErrorEv(t.conn, "Authentication required"))
       /\ Finish(s)
       /\ UNCHANGED waitingPool
  ELSE /\ waitingPool' = waitingPool \cup {t.userId}
       /\ out' = sent
       /\ Suspend(s, [t EXCEPT !.pc = "jw_add"])

\* the model stops accepting join-waiting and next once MaxRooms records may
\* come to exist
RoomBudget == Len(rooms) + PendingRooms < MaxRooms

\* ws.on('message'), type join-waiting
RecvJoinWaiting(m, c, userId) ==
  /\ Take(m, c, FALSE)
  /\ readyState[c] = "OPEN"
  /\ RoomBudget
  /\ IF ~Gate(c) \/ ~IdentOk(c, userId)
     THEN /\ out' = Send(ErrorEv(c, "Authentication required"))
          /\ UNCHANGED <<waitingPool, tasks>>
     ELSE \E s \in Slots :
            /\ FreeSlot(s)
            /\ handleJoinWaiting(s, NewTask("join-waiting", c, userId), <<>>)
  /\ UNCHANGED <<clients, readyState, wsUserId, wsRoomId, isAuthenticated,
                 authTimeout, rooms, isOnline, messages>>

\* routes.ts:401  getWaitingUsers copies the pool
JwAdd(s) ==
  /\ At(s, "jw_add")
  /\ Suspend(s, [tasks[s] EXCEPT !.pc = "jw_snapshot", !.snap = waitingPool])
  /\ out' = <<>>
  /\ UNCHANGED <<clients, readyState, wsUserId, wsRoomId, isAuthenticated,
                 authTimeout, waitingPool, rooms, isOnline, messages>>
  /\ UNCHANGED <<matchCount, events, overlaps>>

\* routes.ts:402  waitingUsers.filter(id => id !== userId)
availableUsers(t) == t.snap \ {t.userId}

\* routes.ts:404-416  no candidate: the 'waiting' frame
JwWaiting(s) ==
  /\ At(s, "jw_snapshot")
  /\ availableUsers(tasks[s]) = {}
  /\ out' = Send([Ev(tasks[s].conn, "waiting") EXCEPT !.msg = "Waiting for a match"])
  /\ Finish(s)
  /\ UNCHANGED <<clients, readyState, wsUserId, wsRoomId, isAuthenticated,
                 authTimeout, waitingPool, rooms, isOnline, messages>>
  /\ UNCHANGED <<matchCount, events, overlaps>>

\* routes.ts:404-409, 438  a candidate is drawn and matchUsers removes userId1
JwMatch(s, partnerId) ==
  /\ At(s, "jw_snapshot")
  /\ partnerId \in availableUsers(tasks[s])
  /\ waitingPool' = waitingPool \ {tasks[s].userId}
  /\ Suspend(s, [tasks[s] EXCEPT !.pc = "mu_rm1", !.partnerId = partnerId])
  /\ out' = <<>>
  /\ UNCHANGED <<clients, readyState, wsUserId, wsRoomId, isAuthenticated,
                 authTimeout, rooms, isOnline, messages>>
  /\ UNCHANGED <<matchCount, events, overlaps>>

\* routes.ts:439 without the removal of the second user
MuRm1KeepsPartner(s) ==
  /\ At(s, "mu_rm1")
  /\ Suspend(s, [tasks[s] EXCEPT !.pc = "mu_rm2"])
  /\ out' = <<>>
  /\ UNCHANGED <<clients, readyState, wsUserId, wsRoomId, isAuthenticated,
                 authTimeout, waitingPool, rooms, isOnline, messages>>
  /\ UNCHANGED <<matchCount, events, overlaps>>

\* routes.ts:439
MuRm1(s) ==
  /\ At(s, "mu_rm1")
  /\ waitingPool' = waitingPool \ {tasks[s].partnerId}
  /\ Suspend(s, [tasks[s] EXCEPT !.pc = "mu_rm2"])
  /\ out' = <<>>
  /\ UNCHANGED <<clients, readyState, wsUserId, wsRoomId, isAuthenticated,
                 authTimeout, rooms, isOnline, messages>>
  /\ UNCHANGED <<matchCount, events, overlaps>>

\* createRoom without the loop that closes the users' earlier rooms
createRoomKeepsOld(s, i) ==
  LET t == tasks[s]
  IN  /\ rooms' = Append(rooms, NewRoom(t.userId, t.partnerId))
      /\ Suspend(s, [t EXCEPT !.pc = "mu_users", !.room = Len(rooms) + 1])

\* MemStorage.createRoom from entry i of the map on: the loop runs to the
\* next entry holding either user, closes it and awaits; when no such entry
\* is left (entries added meanwhile are visited too) the record is inserted
createRoom(s, i) ==
  LET t == tasks[s]
      S == NextToClose(i, t.userId, t.partnerId)
  IN  IF S # {}
      THEN /\ rooms' = closeRoom(rooms, Min(S))
           /\ Suspend(s, [t EXCEPT !.pc = "cr_close", !.i = Min(S) + 1])
      ELSE /\ rooms' = Append(rooms, NewRoom(t.userId, t.partnerId))
           /\ Suspend(s, [t EXCEPT !.pc = "mu_users", !.room = Len(rooms) + 1])

\* routes.ts:442  matchUsers calls createRoom
MuRm2(s) ==
  /\ At(s, "mu_rm2")
  /\ createRoom(s, 1)
  /\ out' = <<>>
  /\ UNCHANGED <<clients, readyState, wsUserId, wsRoomId, isAuthenticated,
                 authTimeout, waitingPool, isOnline, messages>>
  /\ UNCHANGED <<matchCount, events, overlaps>>

\* storage.ts:133  createRoom resumes after `await this.closeRoom`
CrClose(s) ==
  /\ At(s, "cr_close")
  /\ createRoom(s, tasks[s].i)
  /\ out' = <<>>
  /\ UNCHANGED <<clients, readyState, wsUserId, wsRoomId, isAuthenticated,
                 authTimeout, waitingPool, isOnline, messages>>
  /\ UNCHANGED <<matchCount, events, overlaps>>

\* a match frame that names the account of the receiving socket as partner
MatchEvOwnId(to, roomId, partner) ==
  [Ev(to, "match") EXCEPT !.roomId = roomId, !.partner = wsUserId[to]]

\* routes.ts:464-485  the match frame: roomId and the partner's account
MatchEv(to, roomId, partner) ==
  [Ev(to, "match") EXCEPT !.roomId = roomId, !.partner = partner]

\* routes.ts:445-485  after the two getUser calls (both accounts exist):
\* look the sockets up, give up if one is missing, else set roomId and
\* write the two match frames
MuUsers(s) ==
  /\ At(s, "mu_users")
  /\ LET t == tasks[s]
         client1 == clients[t.userId]
         client2 == clients[t.partnerId]
     IN  IF client1 = 0 \/ client2 = 0
         THEN /\ out' = <<>>
              /\ UNCHANGED wsRoomId
         ELSE /\ wsRoomId' = [c \in Conns |->
                                IF c \in {client1, client2} THEN t.room
                                ELSE wsRoomId[c]]
              /\ out' = Send(MatchEv(client1, t.room, t.partnerId))
                        \o Send(MatchEv(client2, t.room, t.userId))
  /\ matchCount' = [c \in Conns |->
       matchCount[c] + Cardinality({i \in 1..Len(out') :
                         out'[i].type = "match" /\ out'[i].to = c})]
  /\ Finish(s)
  /\ UNCHANGED <<clients, readyState, wsUserId, isAuthenticated,
                 authTimeout, waitingPool, rooms, isOnline, messages>>
  /\ UNCHANGED <<events, overlaps>>

\* ---------------------------------------------------------------- leave-waiting
\* ws.on('message'), type leave-waiting: handleLeaveWaiting up to its await
RecvLeaveWaiting(m, c, userId) ==
  /\ Take(m, c, FALSE)
  /\ readyState[c] = "OPEN"
  /\ IF ~Gate(c) \/ ~IdentOk(c, userId)
     THEN /\ out' = Send(ErrorEv(c, "Authentication required"))
          /\ UNCHANGED <<waitingPool, tasks>>
     ELSE /\ waitingPool' = waitingPool \ {userId}
          /\ out' = <<>>
          /\ \E s \in Slots :
               /\ FreeSlot(s)
               /\ Suspend(s, [NewTask("leave-waiting", c, userId)
                                EXCEPT !.pc = "lw_rm",
                                       !.snap = waitingPool \cap {userId}])
  /\ UNCHANGED <<clients, readyState, wsUserId, wsRoomId, isAuthenticated,
                 authTimeout, rooms, isOnline, messages>>

\* routes.ts:431-433 without the ws.send
LwRmSilent(s) ==
  /\ At(s, "lw_rm")
  /\ out' = <<>>
  /\ Finish(s)
  /\ UNCHANGED <<clients, readyState, wsUserId, wsRoomId, isAuthenticated,
                 authTimeout, waitingPool, rooms, isOnline, messages>>
  /\ UNCHANGED <<matchCount, events, overlaps>>

\* routes.ts:431-433
LwRm(s) ==
  /\ At(s, "lw_rm")
  /\ out' = Send(Ev(tasks[s].conn, "leave-waiting-success"))
  /\ Finish(s)
  /\ UNCHANGED <<clients, readyState, wsUserId, wsRoomId, isAuthenticated,
                 authTimeout, waitingPool, rooms, isOnline, messages>>
  /\ UNCHANGED <<matchCount, events, overlaps>>

\* ---------------------------------------------------------------- message
\* ws.on('message'), type message: handleMessage up to `await getRoomById`
RecvMessage(m, c, userId, roomId, text) ==
  /\ Take(m, c, FALSE)
  /\ readyState[c] = "OPEN"
  /\ IF ~Gate(c)
     THEN /\ out' = Send(RelayError(c, "Authentication required", "message", roomId))
          /\ UNCHANGED tasks
     ELSE IF ~IdentOk(c, userId) \/ ~RoomOk(c, roomId)
     THEN /\ out' = Send(RelayError(c, "Invalid user or room", "message", roomId))
          /\ UNCHANGED tasks
     ELSE /\ Len(messages) + PendingMessages < m.msgs
          /\ out' = <<>>
          /\ \E s \in Slots :
               /\ FreeSlot(s)
               /\ Suspend(s, [NewTask("message", c, userId) EXCEPT
                                !.pc = "msg_room", !.roomId = roomId,
                                !.text = text, !.room = getRoomById(roomId)])
  /\ UNCHANGED <<clients, readyState, wsUserId, wsRoomId, isAuthenticated,
                 authTimeout, waitingPool, rooms, isOnline, messages>>

\* routes.ts:501-520  room and partner checks, then createMessage
MsgRoom(s) ==
  /\ At(s, "msg_room")
  /\ LET t == tasks[s]
         partnerId == IF t.room = 0 THEN 0
                      ELSE FindPartner(rooms[t.room], t.userId)
     IN  IF t.room = 0 \/ ~rooms[t.room].active
         THEN /\ out' = Send(RelayError(t.conn, "Room not found or inactive", "message", t.roomId))
              /\ Finish(s)
              /\ UNCHANGED messages
         ELSE IF partnerId = 0
         THEN /\ out' = Send(RelayError(t.conn, "Partner not found", "message", t.roomId))
              /\ Finish(s)
              /\ UNCHANGED messages
         ELSE /\ messages' = Append(messages,
                   [senderId |-> t.userId, receiverId |-> partnerId,
                    text |-> t.text])
              /\ out' = <<>>
              /\ Suspend(s, [t EXCEPT !.pc = "msg_create",
                                      !.partnerId = partnerId,
                                      !.newMessage = Len(messages) + 1])
  /\ UNCHANGED <<clients, readyState, wsUserId, wsRoomId, isAuthenticated,
                 authTimeout, waitingPool, rooms, isOnline>>
  /\ UNCHANGED <<matchCount, events, overlaps>>

\* a relayed frame; roomId and from record the room the relay resolved and
\* the socket the payload came in on.  A message frame carries the record
\* createMessage returned (id = its place in messages), a signal frame the
\* payload and the sender's id
RelayEv(to, type, t) ==
  IF t.newMessage # 0
  THEN [Ev(to, type) EXCEPT !.id = t.newMessage,
                            !.senderId = messages[t.newMessage].senderId,
                            !.text = messages[t.newMessage].text,
                            !.roomId = t.room, !.from = t.conn, !.req = type]
  ELSE [Ev(to, type) EXCEPT !.senderId = t.userId, !.text = t.text,
                            !.roomId = t.room, !.from = t.conn, !.req = type]

\* the copy for the partner made from the request instead of the stored record
SendPartnerFromRequest(partnerId, type, t) ==
  IF clients[partnerId] # 0
  THEN Send([RelayEv(clients[partnerId], type, t) EXCEPT !.id = 0])
  ELSE <<>>

\* the partner socket is written to only if registered and OPEN
SendPartner(partnerId, type, t) ==
  IF clients[partnerId] # 0
  THEN Send(RelayEv(clients[partnerId], type, t))
  ELSE <<>>

\* routes.ts:523-536 with an error for the sender when the copy is dropped
MsgCreateReportsDrop(s) ==
  /\ At(s, "msg_create")
  /\ LET t == tasks[s]
     IN  out' = Send(RelayEv(t.conn, "message", t))
                \o (IF SendPartner(t.partnerId, "message", t) = <<>>
                    THEN Send(RelayError(t.conn, "Partner not connected",
                                         "message", t.roomId))
                    ELSE SendPartner(t.partnerId, "message", t))
  /\ Finish(s)
  /\ UNCHANGED <<clients, readyState, wsUserId, wsRoomId, isAuthenticated,
                 authTimeout, waitingPool, rooms, isOnline, messages>>
  /\ UNCHANGED <<matchCount, events, overlaps>>

\* routes.ts:523-536  echo to the sender, copy to the partner
MsgCreate(s) ==
  /\ At(s, "msg_create")
  /\ LET t == tasks[s]
     IN  out' = Send(RelayEv(t.conn, "message", t))
                \o SendPartner(t.partnerId, "message", t)
  /\ Finish(s)
  /\ UNCHANGED <<clients, readyState, wsUserId, wsRoomId, isAuthenticated,
                 authTimeout, waitingPool, rooms, isOnline, messages>>
  /\ UNCHANGED <<matchCount, events, overlaps>>

\* ---------------------------------------------------------------- signal
\* ws.on('message'), type signal: handleSignal up to `await getRoomById`
RecvSignal(m, c, userId, roomId) ==
  /\ Take(m, c, FALSE)
  /\ readyState[c] = "OPEN"
  /\ IF ~Gate(c)
     THEN /\ out' = Send(RelayError(c, "Authentication required", "signal", roomId))
          /\ UNCHANGED tasks
     ELSE IF ~IdentOk(c, userId) \/ ~RoomOk(c, roomId)
     THEN /\ out' = Send(RelayError(c, "Invalid user or room", "signal", roomId))
          /\ UNCHANGED tasks
     ELSE /\ out' = <<>>
          /\ \E s \in Slots :
               /\ FreeSlot(s)
               /\ Suspend(s, [NewTask("signal", c, userId) EXCEPT
                                !.pc = "sig_room", !.roomId = roomId,
                                !.room = getRoomById(roomId)])
  /\ UNCHANGED <<clients, readyState, wsUserId, wsRoomId, isAuthenticated,
                 authTimeout, waitingPool, rooms, isOnline, messages>>

\* routes.ts:552-580 with a handler that forgets the sender's roomId when
\* the room is gone
SigRoomForgetsRoom(s) ==
  /\ At(s, "sig_room")
  /\ LET t == tasks[s]
         partnerId == IF t.room = 0 THEN 0
                      ELSE FindPartner(rooms[t.room], t.userId)
     IN  IF t.room = 0 \/ ~rooms[t.room].active
         THEN /\ out' = Send(RelayError(t.conn, "Room not found or inactive", "signal", t.roomId))
              /\ wsRoomId' = [wsRoomId EXCEPT ![t.conn] = 0]
         ELSE IF partnerId = 0
         THEN /\ out' = Send(RelayError(t.conn, "Partner not found", "signal", t.roomId))
              /\ UNCHANGED wsRoomId
         ELSE /\ out' = SendPartner(partnerId, "signal", t)
              /\ UNCHANGED wsRoomId
  /\ Finish(s)
  /\ UNCHANGED <<clients, readyState, wsUserId, isAuthenticated,
                 authTimeout, waitingPool, rooms, isOnline, messages>>
  /\ UNCHANGED <<matchCount, events, overlaps>>

\* routes.ts:552-580  room and partner checks, then the forward
SigRoom(s) ==
  /\ At(s, "sig_room")
  /\ LET t == tasks[s]
         partnerId == IF t.room = 0 THEN 0
                      ELSE FindPartner(rooms[t.room], t.userId)
     IN  IF t.room = 0 \/ ~rooms[t.room].active
         THEN out' = Send(RelayError(t.conn, "Room not found or inactive", "signal", t.roomId))
         ELSE IF partnerId = 0
         THEN out' = Send(RelayError(t.conn, "Partner not found", "signal", t.roomId))
         ELSE out' = SendPartner(partnerId, "signal", t)
  /\ Finish(s)
  /\ UNCHANGED <<clients, readyState, wsUserId, wsRoomId, isAuthenticated,
                 authTimeout, waitingPool, rooms, isOnline, messages>>
  /\ UNCHANGED <<matchCount, events, overlaps>>

\* ---------------------------------------------------------------- next
\* routes.ts:599-616 and 639-653: tell the partner of the room, clear its
\* roomId; me is the identity excluded by find (userId resp. ws.userId)
NotifyTarget(room, me) ==
  IF room = 0 THEN 0
  ELSE LET partnerId == FindPartner(rooms[room], me)
       IN  IF partnerId = 0 THEN 0
           ELSE IF clients[partnerId] # 0
                   /\ readyState[clients[partnerId]] = "OPEN"
                THEN clients[partnerId] ELSE 0

PartnerLeft(room, me) ==
  IF NotifyTarget(room, me) # 0
  THEN <<Ev(NotifyTarget(room, me), "partner-left")>> ELSE <<>>

\* ws.on('message'), type next: handleNext up to `await closeRoom`, or, with
\* no roomId, on into handleJoinWaiting
RecvNext(m, c, userId) ==
  /\ Take(m, c, FALSE)
  /\ readyState[c] = "OPEN"
  /\ RoomBudget
  /\ IF ~Gate(c) \/ ~IdentOk(c, userId)
     THEN /\ out' = Send(ErrorEv(c, "Authentication required"))
          /\ UNCHANGED <<waitingPool, rooms, tasks>>
     ELSE \E s \in Slots :
            /\ FreeSlot(s)
            /\ IF wsRoomId[c] # 0
               THEN /\ rooms' = closeRoom(rooms, wsRoomId[c])
                    /\ out' = <<>>
                    /\ Suspend(s, [NewTask("next", c, userId)
                                     EXCEPT !.pc = "nx_close"])
                    /\ UNCHANGED waitingPool
               ELSE /\ handleJoinWaiting(s, NewTask("next", c, userId), <<>>)
                    /\ UNCHANGED rooms
  /\ UNCHANGED <<clients, readyState, wsUserId, wsRoomId, isAuthenticated,
                 authTimeout, isOnline, messages>>

\* routes.ts:598  getRoomById(ws.roomId), read when handleNext resumes
NxClose(s) ==
  /\ At(s, "nx_close")
  /\ Suspend(s, [tasks[s] EXCEPT !.pc = "nx_room",
                                 !.found = getRoomById(wsRoomId[tasks[s].conn])])
  /\ out' = <<>>
  /\ UNCHANGED <<clients, readyState, wsUserId, wsRoomId, isAuthenticated,
                 authTimeout, waitingPool, rooms, isOnline, messages>>
  /\ UNCHANGED <<matchCount, events, overlaps>>

\* routes.ts:599-620  notify the partner, clear both roomIds, re-queue
NxRoom(s) ==
  /\ At(s, "nx_room")
  /\ LET t == tasks[s]
         target == NotifyTarget(t.found, t.userId)
     IN  /\ wsRoomId' = [c \in Conns |->
                           IF c = t.conn \/ c = target THEN 0 ELSE wsRoomId[c]]
         /\ handleJoinWaiting(s, t, PartnerLeft(t.found, t.userId))
  /\ UNCHANGED <<clients, readyState, wsUserId, isAuthenticated,
                 authTimeout, rooms, isOnline, messages>>
  /\ UNCHANGED <<matchCount, events, overlaps>>

\* ---------------------------------------------------------------- disconnect
\* handleDisconnect up to `await updateUserOnlineStatus`
handleDisconnect(s, c, kind) ==
  /\ wsUserId[c] # 0
  /\ FreeSlot(s)
  /\ isOnline' = [isOnline EXCEPT ![wsUserId[c]] = FALSE]
  /\ Suspend(s, [NewTask(kind, c, 0) EXCEPT !.pc = "dc_online"])

\* ws.on('message'), type disconnect
RecvDisconnect(m, c) ==
  /\ Take(m, c, FALSE)
  /\ readyState[c] = "OPEN"
  /\ IF ~Gate(c)
     THEN /\ out' = Send(ErrorEv(c, "Authentication required"))
          /\ UNCHANGED <<isOnline, tasks>>
     ELSE IF wsUserId[c] = 0
     THEN /\ out' = <<>>
          /\ UNCHANGED <<isOnline, tasks>>
     ELSE /\ out' = <<>>
          /\ \E s \in Slots : handleDisconnect(s, c, "disconnect")
  /\ UNCHANGED <<clients, readyState, wsUserId, wsRoomId, isAuthenticated,
                 authTimeout, waitingPool, rooms, messages>>

\* ws.on('close'): the transport is gone (closed by the peer, or the close
\* the server asked for has completed)
Close(m, c) ==
  /\ Take(m, 0, FALSE)
  /\ readyState[c] \in {"OPEN", "CLOSING"}
  /\ readyState' = [readyState EXCEPT ![c] = "CLOSED"]
  /\ out' = <<>>
  /\ IF wsUserId[c] = 0
     THEN UNCHANGED <<isOnline, tasks>>
     ELSE \E s \in Slots : handleDisconnect(s, c, "close")
  /\ UNCHANGED <<clients, wsUserId, wsRoomId, isAuthenticated,
                 authTimeout, waitingPool, rooms, messages>>

\* routes.ts:630
DcOnline(s) ==
  /\ At(s, "dc_online")
  /\ waitingPool' = waitingPool \ {wsUserId[tasks[s].conn]}
  /\ Suspend(s, [tasks[s] EXCEPT !.pc = "dc_rm"])
  /\ out' = <<>>
  /\ UNCHANGED <<clients, readyState, wsUserId, wsRoomId, isAuthenticated,
                 authTimeout, rooms, isOnline, messages>>
  /\ UNCHANGED <<matchCount, events, overlaps>>

\* routes.ts:633-635, 657  close the room of ws.roomId, or unregister at once
DcRm(s) ==
  /\ At(s, "dc_rm")
  /\ LET c == tasks[s].conn
     IN  IF wsRoomId[c] # 0
         THEN /\ rooms' = closeRoom(rooms, wsRoomId[c])
              /\ Suspend(s, [tasks[s] EXCEPT !.pc = "dc_close"])
              /\ UNCHANGED clients
         ELSE /\ clients' = [clients EXCEPT ![wsUserId[c]] = 0]
              /\ Finish(s)
              /\ UNCHANGED rooms
  /\ out' = <<>>
  /\ UNCHANGED <<readyState, wsUserId, wsRoomId, isAuthenticated,
                 authTimeout, waitingPool, isOnline, messages>>
  /\ UNCHANGED <<matchCount, events, overlaps>>

\* routes.ts:638
DcClose(s) ==
  /\ At(s, "dc_close")
  /\ Suspend(s, [tasks[s] EXCEPT !.pc = "dc_room",
                                 !.found = getRoomById(wsRoomId[tasks[s].conn])])
  /\ out' = <<>>
  /\ UNCHANGED <<clients, readyState, wsUserId, wsRoomId, isAuthenticated,
                 authTimeout, waitingPool, rooms, isOnline, messages>>
  /\ UNCHANGED <<matchCount, events, overlaps>>

\* routes.ts:639-657  notify the partner, clear its roomId, unregister
DcRoom(s) ==
  /\ At(s, "dc_room")
  /\ LET t == tasks[s]
         me == wsUserId[t.conn]
         target == NotifyTarget(t.found, me)
     IN  /\ out' = PartnerLeft(t.found, me)
         /\ wsRoomId' = [c \in Conns |-> IF c = target THEN 0 ELSE wsRoomId[c]]
         /\ clients' = [clients EXCEPT ![me] = 0]
  /\ Finish(s)
  /\ UNCHANGED <<readyState, wsUserId, isAuthenticated, authTimeout,
                 waitingPool, rooms, isOnline, messages>>
  /\ UNCHANGED <<matchCount, events, overlaps>>

\* ---------------------------------------------------------------- timer
\* routes.ts:47-56  the timer callback without the check and without ws.close()
AuthTimeoutFiresNoClose(c) ==
  /\ authTimeout[c] = "armed"
  /\ authTimeout' = [authTimeout EXCEPT ![c] = "fired"]
  /\ out' = Send(ErrorEv(c, "Authentication required"))
  /\ UNCHANGED <<clients, readyState, wsUserId, wsRoomId, isAuthenticated,
                 waitingPool, rooms, isOnline, messages, tasks>>
  /\ UNCHANGED <<matchCount, events, overlaps>>

\* routes.ts:47-56  the 10 s timer fires unless clearTimeout came first
AuthTimeoutFires(c) ==
  /\ authTimeout[c] = "armed"
  /\ authTimeout' = [authTimeout EXCEPT ![c] = "fired"]
  /\ IF ~isAuthenticated[c]
     THEN /\ out' = Send(ErrorEv(c, "Authentication required"))
          /\ readyState' = [readyState EXCEPT ![c] =
                              IF @ = "OPEN" THEN "CLOSING" ELSE @]
     ELSE /\ out' = <<>>
          /\ UNCHANGED readyState
  /\ UNCHANGED <<clients, wsUserId, wsRoomId, isAuthenticated, waitingPool,
                 rooms, isOnline, messages, tasks>>
  /\ UNCHANGED <<matchCount, events, overlaps>>

\* ---------------------------------------------------------------- behaviours
\* an event on transport c, taken in mode m
Event(m, c) ==
  \/ Connect(c)
  \/ \E userId \in Users : RecvAuth(m, c, userId)
  \/ \E userId \in Users : RecvJoinWaiting(m, c, userId)
  \/ \E userId \in Users : RecvLeaveWaiting(m, c, userId)
  \/ \E userId \in Users, roomId \in RoomIds \cup {BogusRoomId}, text \in Texts :
       RecvMessage(m, c, userId, roomId, text)
  \/ \E userId \in Users, roomId \in RoomIds \cup {BogusRoomId} :
       RecvSignal(m, c, userId, roomId)
  \/ \E userId \in Users : RecvNext(m, c, userId)
  \/ RecvDisconnect(m, c)
  \/ Close(m, c)

\* the handler suspended in slot s resumes and runs to its next await
Resume(s) ==
  \/ AuthGetUser(s) \/ AuthReturn(s) \/ AuthSuccess(s)
  \/ JwAdd(s) \/ JwWaiting(s) \/ (\E p \in Users : JwMatch(s, p))
  \/ MuRm1(s) \/ MuRm2(s) \/ CrClose(s) \/ MuUsers(s)
  \/ LwRm(s)
  \/ MsgRoom(s) \/ MsgCreate(s)
  \/ SigRoom(s)
  \/ NxClose(s) \/ NxRoom(s)
  \/ DcOnline(s) \/ DcRm(s) \/ DcClose(s) \/ DcRoom(s)

\* handlers interleave at their awaits
Next == (\E c \in Conns : Event(ModeSpec, c)) \/ (\E s \in Slots : Resume(s))
Spec == Init /\ [][Next]_vars

\* handlers overlap only with later frames of the same read of their socket
NextRead == (\E c \in Conns : Event(ModeRead, c)) \/ (\E s \in Slots : Resume(s))
SpecRead == Init /\ [][NextRead]_vars

\* every handler runs to completion before the next event is taken
NextSeq == (\E c \in Conns : Event(ModeSeq, c)) \/ (\E s \in Slots : Resume(s))
SpecSeq == Init /\ [][NextSeq]_vars

\* ---------------------------------------------------------------- scenario A
\* the connection is in the Authenticated/Idle state of the protocol: bound
\* in the registry, not queued, not in a room, no handler of it in progress
Idle(c) ==
  /\ readyState[c] = "OPEN"
  /\ isAuthenticated[c]
  /\ wsUserId[c] # 0
  /\ clients[wsUserId[c]] = c
  /\ wsRoomId[c] = 0
  /\ wsUserId[c] \notin waitingPool
  /\ getRoomByParticipant(wsUserId[c]) = {}
  /\ \A s \in Slots : tasks[s].conn # c

FirstAuth(c, userId) == Fresh(c) /\ RecvAuth(ModeRead, c, userId)
IdleJoin(c) == Idle(c) /\ RecvJoinWaiting(ModeRead, c, wsUserId[c])

\* users log in, each on one transport, and send join-waiting when Idle.  No
\* room is ever closed here, so createRoom finds none to close
NextA ==
  \/ \E c \in Conns : Connect(c)
  \/ \E c \in Conns, userId \in Users : FirstAuth(c, userId)
  \/ \E c \in Conns : IdleJoin(c)
  \/ \E s \in Slots :
       \/ AuthGetUser(s) \/ AuthReturn(s) \/ AuthSuccess(s)
       \/ JwAdd(s) \/ JwWaiting(s) \/ (\E p \in Users : JwMatch(s, p))
       \/ MuRm1(s) \/ MuRm2(s) \/ MuUsers(s)
SpecA == Init /\ [][NextA]_vars

\* ---------------------------------------------------------------- scenario B
\* users log in, each on one transport, and then send join-waiting, next and
\* disconnect frames that name their own account; every handler runs to
\* completion before the next frame is taken
OwnJoinWaiting(c) ==
  wsUserId[c] # 0 /\ RecvJoinWaiting(ModeOwn, c, wsUserId[c])
OwnNext(c) == wsUserId[c] # 0 /\ RecvNext(ModeOwn, c, wsUserId[c])
OwnDisconnect(c) == wsUserId[c] # 0 /\ RecvDisconnect(ModeOwn, c)

NextB ==
  \/ \E c \in Conns : Connect(c)
  \/ \E c \in Conns, userId \in Users : FirstAuth(c, userId)
  \/ \E c \in Conns : OwnJoinWaiting(c)
  \/ \E c \in Conns : OwnNext(c)
  \/ \E c \in Conns : OwnDisconnect(c)
  \/ \E s \in Slots :
       \/ AuthGetUser(s) \/ AuthReturn(s) \/ AuthSuccess(s)
       \/ JwAdd(s) \/ JwWaiting(s) \/ (\E p \in Users : JwMatch(s, p))
       \/ MuRm1(s) \/ MuRm2(s) \/ CrClose(s) \/ MuUsers(s)
       \/ NxClose(s) \/ NxRoom(s)
       \/ DcOnline(s) \/ DcRm(s) \/ DcClose(s) \/ DcRoom(s)
SpecB == Init /\ [][NextB]_vars

\* ---------------------------------------------------------------- scenario D
\* transports connect, send auth frames for any account id (verified,
\* unverified or unknown) or stay silent, and close; the timer callback is a
\* macrotask, so it runs only while no handler is suspended
AnyAuth(c, userId) == RecvAuth(ModeAuth, c, userId)
TimerFires(c) == NoTask /\ AuthTimeoutFires(c)
TransportClose(c) == Close(ModeAuth, c)
NextD ==
  \/ \E c \in Conns : Connect(c)
  \/ \E c \in Conns, userId \in AuthIds : AnyAuth(c, userId)
  \/ \E c \in Conns : TimerFires(c)
  \/ \E c \in Conns : TransportClose(c)
  \/ \E s \in Slots :
       \/ AuthGetUser(s) \/ AuthReturn(s) \/ AuthSuccess(s)
       \/ DcOnline(s) \/ DcRm(s)
SpecD == Init /\ [][NextD]_vars

\* ---------------------------------------------------------------- scenario E
\* every account logs in on at most one transport, which then sends
\* join-waiting and disconnect frames naming its own account and finally
\* closes; every handler runs to completion before the next event is taken
SoleAuth(c, userId) ==
  (\A d \in Conns : wsUserId[d] # userId) /\ FirstAuth(c, userId)
OwnClose(c) == Close(ModeOwn, c)
NextE ==
  \/ \E c \in Conns : Connect(c)
  \/ \E c \in Conns, userId \in Users : SoleAuth(c, userId)
  \/ \E c \in Conns : OwnJoinWaiting(c)
  \/ \E c \in Conns : OwnDisconnect(c)
  \/ \E c \in Conns : OwnClose(c)
  \/ \E s \in Slots :
       \/ AuthGetUser(s) \/ AuthReturn(s) \/ AuthSuccess(s)
       \/ JwAdd(s) \/ JwWaiting(s) \/ (\E p \in Users : JwMatch(s, p))
       \/ MuRm1(s) \/ MuRm2(s) \/ CrClose(s) \/ MuUsers(s)
       \/ DcOnline(s) \/ DcRm(s) \/ DcClose(s) \/ DcRoom(s)
SpecE == Init /\ [][NextE]_vars

\* ---------------------------------------------------------------- scenario F
\* every frame type on every connection, bound or not, with auth frames for
\* rejected account ids as well; handlers run one at a time
RejectedAuth(c, userId) == RecvAuth(ModeSeq, c, userId)
NextF ==
  \/ \E c \in Conns : Event(ModeSeq, c)
  \/ \E c \in Conns, userId \in AuthIds \ Users : RejectedAuth(c, userId)
  \/ \E s \in Slots : Resume(s)
SpecF == Init /\ [][NextF]_vars

\* ---------------------------------------------------------------- scenario G
\* users log in, join when Idle, and a matched connection sends chat
\* messages for its own account and room, numbered in the order they are
\* sent.  Two frames that one read of the socket delivers start their
\* handlers back to back, the second while the first is at its first await
OwnMessage(c) ==
  /\ wsUserId[c] # 0 /\ wsRoomId[c] # 0
  /\ \A s \in Slots : tasks[s].pc \in {"idle", "msg_room"}
  /\ RecvMessage(ModeChat, c, wsUserId[c], wsRoomId[c],
                 Len(messages) + PendingMessages + 1)

\* number of awaits the message handler t has reached
Awaits(t) == IF t.pc = "msg_create" THEN 2 ELSE 1

\* a scheduler that resumes suspended handlers in any order
FrontAny(s) == TRUE

\* the continuation of the handler in slot s is the first in the microtask
\* queue: the awaits of MemStorage resolve at once, so continuations run in
\* the order in which the handlers suspended.  Slots are taken lowest
\* first, so of two handlers the one in the lower slot started first
Front(s) ==
  \A r \in Slots \ {s} :
    tasks[r].pc # "idle"
    => IF s < r THEN Awaits(tasks[s]) <= Awaits(tasks[r])
       ELSE Awaits(tasks[s]) < Awaits(tasks[r])

FifoMsgRoom(s) == Front(s) /\ MsgRoom(s)
FifoMsgCreate(s) == Front(s) /\ MsgCreate(s)
NextG ==
  \/ \E c \in Conns : Connect(c)
  \/ \E c \in Conns, userId \in Users : FirstAuth(c, userId)
  \/ \E c \in Conns : IdleJoin(c)
  \/ \E c \in Conns : OwnMessage(c)
  \/ \E s \in Slots :
       \/ AuthGetUser(s) \/ AuthReturn(s) \/ AuthSuccess(s)
       \/ JwAdd(s) \/ JwWaiting(s) \/ (\E p \in Users : JwMatch(s, p))
       \/ MuRm1(s) \/ MuRm2(s) \/ MuUsers(s)
       \/ FifoMsgRoom(s) \/ FifoMsgCreate(s)
SpecG == Init /\ [][NextG]_vars

\* ---------------------------------------------------------------- scenario H
\* an account may log in on several transports, but not while it waits in
\* the pool; join-waiting is sent by the connection the registry holds for
\* the account, so a waiting identity entered the pool through the
\* connection that is registered for it
AuthNotWaiting(c, userId) == userId \notin waitingPool /\ FirstAuth(c, userId)
BoundJoin(c) ==
  /\ wsUserId[c] # 0 /\ clients[wsUserId[c]] = c
  /\ RecvJoinWaiting(ModeOwn, c, wsUserId[c])
NextH ==
  \/ \E c \in Conns : Connect(c)
  \/ \E c \in Conns, userId \in Users : AuthNotWaiting(c, userId)
  \/ \E c \in Conns : BoundJoin(c)
  \/ \E c \in Conns : OwnDisconnect(c)
  \/ \E c \in Conns : OwnClose(c)
  \/ \E s \in Slots :
       \/ AuthGetUser(s) \/ AuthReturn(s) \/ AuthSuccess(s)
       \/ JwAdd(s) \/ JwWaiting(s) \/ (\E p \in Users : JwMatch(s, p))
       \/ MuRm1(s) \/ MuRm2(s) \/ CrClose(s) \/ MuUsers(s)
       \/ DcOnline(s) \/ DcRm(s) \/ DcClose(s) \/ DcRoom(s)
SpecH == Init /\ [][NextH]_vars

\* ---------------------------------------------------------------- scenario I
\* users log in, each on one transport, and send join-waiting when Idle; a
\* read of the socket may deliver a second join-waiting frame behind the
\* first, whose handler is then at `await storage.addToWaitingPool`.  No
\* next, disconnect or close is sent
BurstJoin(c) ==
  /\ \E s \in Slots :
       /\ tasks[s].conn = c
       /\ tasks[s].kind = "join-waiting" /\ tasks[s].pc = "jw_add"
  /\ RecvJoinWaiting(ModeRead, c, wsUserId[c])
NextI ==
  \/ \E c \in Conns : Connect(c)
  \/ \E c \in Conns, userId \in Users : FirstAuth(c, userId)
  \/ \E c \in Conns : IdleJoin(c)
  \/ \E c \in Conns : BurstJoin(c)
  \/ \E s \in Slots :
       \/ AuthGetUser(s) \/ AuthReturn(s) \/ AuthSuccess(s)
       \/ JwAdd(s) \/ JwWaiting(s) \/ (\E p \in Users : JwMatch(s, p))
       \/ MuRm1(s) \/ MuRm2(s) \/ CrClose(s) \/ MuUsers(s)
SpecI == Init /\ [][NextI]_vars

\* ---------------------------------------------------------------- properties
TypeOK ==
  /\ clients \in [Users -> Conns \cup {0}]
  /\ wsUserId \in [Conns -> Users \cup {0}]
  /\ wsRoomId \in [Conns -> 0..Len(rooms)]
  /\ waitingPool \subseteq Users
  /\ Len(rooms) <= MaxRooms
  /\ Len(messages) <= MaxChatMessages

Frames(o, type) == {i \in 1..Len(o) : o[i].type = type}
ActiveRoomsOf(rs, u) == {r \in 1..Len(rs) : rs[r].active /\ Includes(rs[r], u)}

\* C1: in every reachable state no account is a participant of two distinct
\* rooms whose active flag is true.
InvC1 == \A u \in Users : Cardinality(getRoomByParticipant(u)) <= 1

\* C1 case: two handlers overlapped, two rooms share an account, the earlier
\* one was closed and the later one is active.
WitC1 ==
  /\ overlaps > 0
  /\ \E r1, r2 \in 1..Len(rooms), u \in Users :
       /\ r1 < r2
       /\ Includes(rooms[r1], u) /\ Includes(rooms[r2], u)
       /\ ~rooms[r1].active /\ rooms[r2].active

\* C2: every account in the waiting pool is bound in the registry and is not
\* in a room: it is no participant of an active room and its socket has no
\* roomId.
InvC2 ==
  \A u \in waitingPool :
    /\ clients[u] # 0
    /\ getRoomByParticipant(u) = {}
    /\ wsRoomId[clients[u]] = 0

\* C3: when matchUsers writes the match frames of accounts A and B for room r,
\* A and B are both outside the waiting pool, r holds exactly the two distinct
\* accounts A and B, and neither is a participant of another active room.
InvC3 ==
  \A i \in Frames(out, "match") :
    LET r == out[i].roomId
        B == out[i].partner
        A == FindPartner(rooms[r], B)
    IN  /\ A # 0 /\ A # B
        /\ Includes(rooms[r], A) /\ Includes(rooms[r], B)
        /\ A \notin waitingPool /\ B \notin waitingPool
        /\ getRoomByParticipant(A) \subseteq {r}
        /\ getRoomByParticipant(B) \subseteq {r}

\* the socket registered for U gets a match frame naming V and the socket
\* registered for V one naming U
MatchedWith(o, U, V) ==
  /\ U # V
  /\ \E i \in Frames(o, "match") : o[i].to = clients[U] /\ o[i].partner = V
  /\ \E i \in Frames(o, "match") : o[i].to = clients[V] /\ o[i].partner = U

\* the join-waiting handler in slot s ends matchUsers in this step
EndsMatch(s) == tasks[s].pc = "mu_users" /\ tasks'[s].pc = "idle"

\* C4: when exactly one other account V was waiting as U sent join-waiting,
\* the handler ends with match frames for U naming V and for V naming U (and
\* never with a 'waiting' frame).
PropC4 ==
  [][\A s \in Slots :
       (/\ tasks[s].kind = "join-waiting"
        /\ clients[tasks[s].userId] = tasks[s].conn
        /\ Cardinality(availableUsers(tasks[s])) = 1
        /\ tasks[s].pc \in {"jw_snapshot", "mu_users"}
        /\ tasks'[s].pc = "idle")
       => MatchedWith(out', tasks[s].userId,
                      CHOOSE v \in availableUsers(tasks[s]) : TRUE)]_vars

\* C5: when matchUsers finds one of the two accounts without a socket in the
\* registry, no active room of the two remains and the account that still has
\* a socket is back in the waiting pool or in an active room with another.
PropC5 ==
  [][\A s \in Slots :
       (EndsMatch(s) /\ (clients[tasks[s].userId] = 0
                         \/ clients[tasks[s].partnerId] = 0))
       => /\ ~rooms'[tasks[s].room].active
          /\ \A X \in {tasks[s].userId, tasks[s].partnerId} :
               clients[X] # 0 =>
                 \/ X \in waitingPool'
                 \/ ActiveRoomsOf(rooms', X) \ {tasks[s].room} # {}]_vars

\* C6: a room is created only for accounts bound in the registry at that
\* moment, and a match frame names only such accounts.
PropC6 ==
  [][Len(rooms') > Len(rooms) =>
       LET p == rooms'[Len(rooms')].participants
       IN  clients[p[1]] # 0 /\ clients[p[2]] # 0]_vars

\* the task is inside the match transaction: userId1 is out of the pool and
\* the roomIds of the pair are not yet set
InMatch(t) == t.pc \in {"mu_rm1", "mu_rm2", "cr_close", "mu_users"}

\* one of the pair of t is out of the pool and not yet in an active room
HalfMatched(t) ==
  \E X \in {t.userId, t.partnerId} :
    X \notin waitingPool /\ getRoomByParticipant(X) = {}

\* C7: the match transaction is atomic for the other handlers: while a
\* handler is inside it with an account out of the pool and not yet in an
\* active room, no other handler takes its snapshot of the pool, and no
\* account is in the match transactions of two handlers at once.
PropC7 ==
  [][/\ \A s, r \in Slots :
          (/\ s # r
           /\ InMatch(tasks[s]) /\ HalfMatched(tasks[s])
           /\ tasks[r].pc = "jw_add")
          => tasks'[r].pc = "jw_add"
     /\ \A s, r \in Slots :
          (s # r /\ InMatch(tasks'[s]) /\ InMatch(tasks'[r])) =>
            {tasks'[s].userId, tasks'[s].partnerId}
              \cap {tasks'[r].userId, tasks'[r].partnerId} = {}]_vars

\* this step is the arrival of a message or signal frame on the bound
\* socket c that names roomId, an id not in the room table: the frame is
\* refused at once, or a handler for it is suspended at its first await
UnknownRoomRequest(c, roomId) ==
  /\ events' # events
  /\ wsUserId[c] # 0
  /\ roomId \notin 1..Len(rooms)
  /\ \/ \E i \in 1..Len(out') :
          /\ out'[i].req \in {"message", "signal"}
          /\ out'[i].to = c /\ out'[i].roomId = roomId
     \/ \E s \in Slots :
          /\ tasks[s].pc = "idle" /\ tasks'[s].pc # "idle"
          /\ tasks'[s].kind \in {"message", "signal"}
          /\ tasks'[s].conn = c /\ tasks'[s].roomId = roomId

\* the step writes exactly one frame, an error with one of msgs, to socket c
\* and leaves the room table, pool, registry and roomIds alone
RejectedWith(c, msgs) ==
  /\ Len(out') = 1
  /\ out'[1].to = c /\ out'[1].type = "error" /\ out'[1].msg \in msgs
  /\ UNCHANGED <<rooms, waitingPool, clients, wsRoomId, wsUserId, messages>>

InvC9 ==
  \A i \in Frames(out, "message") \cup Frames(out, "signal") :
    Includes(rooms[out[i].roomId], wsUserId[out[i].from])

\* C10: once two Idle users have sent join-waiting and the handlers are done,
\* two sockets have one match frame each, for the same active room, whose
\* participants are the two accounts bound to them; no other socket has one,
\* and every match frame names the other participant of its room.
InvC10 ==
  /\ \A i \in Frames(out, "match") :
       /\ Includes(rooms[out[i].roomId], wsUserId[out[i].to])
       /\ out[i].partner = FindPartner(rooms[out[i].roomId], wsUserId[out[i].to])
  /\ (NoTask /\ events = 2) =>
       \E c1, c2 \in Conns :
         /\ c1 # c2
         /\ matchCount[c1] = 1 /\ matchCount[c2] = 1
         /\ \A c \in Conns \ {c1, c2} : matchCount[c] = 0
         /\ wsRoomId[c1] # 0 /\ wsRoomId[c1] = wsRoomId[c2]
         /\ rooms[wsRoomId[c1]].active
         /\ wsUserId[c1] # wsUserId[c2]
         /\ Includes(rooms[wsRoomId[c1]], wsUserId[c1])
         /\ Includes(rooms[wsRoomId[c1]], wsUserId[c2])

\* C10 case: the second join-waiting has just been answered with the two
\* match frames, one to each of two sockets bound to different accounts.
WitC10 ==
  /\ NoTask /\ events = 2
  /\ Cardinality(Frames(out, "match")) = 2
  /\ \E c1, c2 \in Conns :
       /\ c1 # c2 /\ wsUserId[c1] # wsUserId[c2]
       /\ matchCount[c1] = 1 /\ matchCount[c2] = 1

\* the message frames of out are one relay of a stored record: the first
\* goes to the socket the request came in on, a second, if any, to the socket
\* registered for the receiver, and both carry the record's id, sender, text
OneRecord(o) ==
  LET e == o[1]
      rec == messages[e.id]
  IN  /\ e.id \in 1..Len(messages)
      /\ e.to = e.from
      /\ e.senderId = rec.senderId /\ e.text = rec.text
      /\ Len(o) <= 2
      /\ Len(o) = 2 =>
           /\ o[2].type = "message" /\ o[2].to = clients[rec.receiverId]
           /\ o[2].id = e.id /\ o[2].senderId = e.senderId
           /\ o[2].text = e.text

PartnerInRoom(r, me) ==
  LET p == FindPartner(rooms[r], me)
  IN  /\ p # 0 /\ clients[p] # 0
      /\ readyState[clients[p]] = "OPEN" /\ wsRoomId[clients[p]] = r

\* C12: when U1, in an active room with U2, sends next: the room is closed
\* at once; the handler then writes partner-left to U2's socket; and when the
\* handler ends U1 is in the pool and has got 'waiting', or is in a new
\* active room and both sockets of that room have got their match frame.
PropC12 ==
  [][\A s \in Slots :
       LET t == tasks[s]
           n == tasks'[s]
           U1 == t.userId
       IN  /\ (t.pc = "idle" /\ n.kind = "next" /\ n.pc = "nx_close")
               => ~rooms'[wsRoomId[n.conn]].active
           /\ (t.pc = "nx_room" /\ n.pc # "nx_room" /\ t.found # 0
               /\ PartnerInRoom(t.found, U1))
               => \E i \in Frames(out', "partner-left") :
                    out'[i].to = clients[FindPartner(rooms[t.found], U1)]
           /\ (t.kind = "next" /\ t.pc \in {"jw_snapshot", "mu_users"}
               /\ t.found # 0 /\ clients[U1] = t.conn
               /\ LET U2 == FindPartner(rooms[t.found], U1)
                  IN  /\ U2 # 0 /\ clients[U2] # 0
                      /\ readyState[clients[U2]] = "OPEN"
               /\ n.pc = "idle")
               => \/ /\ U1 \in waitingPool'
                     /\ \E i \in Frames(out', "waiting") : out'[i].to = t.conn
                  \/ /\ wsRoomId'[t.conn] # 0
                     /\ rooms'[wsRoomId'[t.conn]].active
                     /\ Includes(rooms'[wsRoomId'[t.conn]], U1)
                     /\ Cardinality(Frames(out', "match")) = 2]_vars

\* a connection on which no auth frame has been taken so far
NeverAuth(c) ==
  /\ ~isAuthenticated[c]
  /\ wsUserId[c] = 0
  /\ \A s \in Slots : tasks[s].conn # c

\* a connection whose auth was accepted
AuthOk(c) == isAuthenticated[c] /\ wsUserId[c] # 0

\* C13: when the authentication timer fires on an open connection that never
\* sent an auth frame, the server sends it the error 'Authentication
\* required' and closes the transport; no step of the timer changes the
\* transport state of a connection that has authenticated successfully.
PropC13 ==
  [][\A c \in Conns :
       (authTimeout[c] = "armed" /\ authTimeout'[c] = "fired") =>
         /\ (NeverAuth(c) /\ readyState[c] = "OPEN") =>
              /\ out' = <<ErrorEv(c, "Authentication required")>>
              /\ readyState'[c] \in {"CLOSING", "CLOSED"}
         /\ AuthOk(c) => readyState'[c] = readyState[c]]_vars
\* the timer has closed a silent connection while another one is logged in
WitC13 ==
  \E c, d \in Conns :
    /\ authTimeout[c] = "fired" /\ readyState[c] = "CLOSING" /\ wsUserId[c] = 0
    /\ Len(out) = 1 /\ out[1].to = c /\ out[1].type = "error"
    /\ AuthOk(d) /\ readyState[d] = "OPEN" /\ authTimeout[d] = "cleared"

\* C14: an open connection whose auth frames were all rejected (unknown or
\* unverified account) is still in Connected once their handlers have
\* ended: it is bound to no identity in the registry, it is not marked
\* authenticated, and its authentication timer is still armed.
InvC14 ==
  \A c \in Conns :
    (readyState[c] = "OPEN" /\ wsUserId[c] = 0
     /\ \A s \in Slots : tasks[s].conn # c)
    => /\ \A u \in Users : clients[u] # c
       /\ ~isAuthenticated[c]
       /\ authTimeout[c] = "armed"

\* C15: the handler of an auth frame sends auth-success only for an accepted
\* identity, which the registry then maps to the connection; the handler of
\* a rejected auth frame sends an error and no auth-success.
PropC15 ==
  [][\A i \in Frames(out', "auth-success") :
       \E u \in Users : out'[i].partner = u /\ clients'[u] = out'[i].to]_vars

\* the cleanup running in slot s is a repeated one: the registry entry of
\* the connection's identity is gone (in scenario E one cleanup took it)
SecondCleanup(s) ==
  /\ tasks[s].kind \in {"disconnect", "close"}
  /\ tasks[s].pc # "idle"
  /\ clients[wsUserId[tasks[s].conn]] # tasks[s].conn

\* C16: a disconnect cleanup that runs for a connection already cleaned up
\* (disconnect frame, then transport close) has no visible effect: no step
\* of it sends a frame (the former partner gets no second partner-left),
\* clears the roomId of a connection, changes the registry or the rooms.
PropC16 ==
  [][\A s \in Slots :
       (SecondCleanup(s) /\ tasks'[s] # tasks[s]) =>
         /\ out' = <<>>
         /\ wsRoomId' = wsRoomId
         /\ clients' = clients
         /\ rooms' = rooms]_vars

\* slot s holds a leave-waiting handler whose removeFromWaitingPool found
\* nothing to remove (snap is what Set.delete took out of the pool)
RepeatedLeave(s) ==
  tasks[s].kind = "leave-waiting" /\ tasks[s].pc = "lw_rm" /\ tasks[s].snap = {}

PropC18 ==
  [][\A s \in Slots :
       LET t == tasks[s]
       IN  (/\ t.pc = "auth_getUser" /\ tasks'[s].pc = "auth_return"
            /\ t.userId \in Users
            /\ clients[t.userId] \notin {0, t.conn}
            /\ readyState[clients[t.userId]] = "OPEN")
           => /\ readyState'[clients[t.userId]] \in {"CLOSING", "CLOSED"}
              /\ clients'[t.userId] = t.conn]_vars

\* C19: when the handler of a disconnect frame ends, the connection is in
\* Closed: its transport is closed (or closing), so that no later frame of
\* it is taken and its identity cannot enter the Waiting Pool or a room
\* through it any more.
PropC19 ==
  [][\A s \in Slots :
       (tasks[s].kind = "disconnect" /\ tasks[s].pc # "idle"
        /\ tasks'[s].pc = "idle")
       => readyState'[tasks[s].conn] \in {"CLOSING", "CLOSED"}]_vars

\* C20: when a disconnect cleanup (disconnect frame or transport close) of a
\* connection bound to an identity ends, that identity is not in the
\* Waiting Pool, has no entry in the registry, and is a participant of no
\* active room.
PropC20 ==
  [][\A s \in Slots :
       LET u == wsUserId[tasks[s].conn]
       IN  (tasks[s].kind \in {"disconnect", "close"} /\ tasks[s].pc # "idle"
            /\ tasks'[s].pc = "idle")
           => /\ u \notin waitingPool'
              /\ clients'[u] = 0
              /\ \A r \in 1..Len(rooms') :
                   rooms'[r].active => ~Includes(rooms'[r], u)]_vars

\* connection d is the registered, open connection of a participant of room
\* r other than the accounts in S, and its roomId names r
OtherSideOf(d, r, S) ==
  /\ wsUserId[d] # 0 /\ wsUserId[d] \notin S
  /\ clients[wsUserId[d]] = d /\ readyState[d] = "OPEN"
  /\ wsRoomId[d] = r /\ Includes(rooms[r], wsUserId[d])

\* the step sends partner-left to connection d and clears its roomId
ToldPartnerLeft(d) ==
  /\ \E i \in Frames(out', "partner-left") : out'[i].to = d
  /\ wsRoomId'[d] = 0

\* C21: the handler that makes a room inactive tells the other participant:
\* in the step of next or of the disconnect cleanup that follows the close
\* of the room, and in the last step of a match whose createRoom closed the
\* older rooms of the two matched users, the connection of the other
\* participant of the closed room is sent partner-left and its roomId is
\* cleared.
PropC21 ==
  [][\A s \in Slots : \A d \in Conns :
       LET t == tasks[s]
       IN  /\ (t.pc = "nx_room" /\ tasks'[s].pc # "nx_room" /\ t.found # 0
               /\ OtherSideOf(d, t.found, {t.userId}))
              => ToldPartnerLeft(d)
           /\ (t.pc = "dc_room" /\ tasks'[s].pc = "idle" /\ t.found # 0
               /\ OtherSideOf(d, t.found, {wsUserId[t.conn]}))
              => ToldPartnerLeft(d)
           /\ (t.pc = "mu_users" /\ tasks'[s].pc = "idle")
              => \A r \in 1..Len(rooms) :
                   (/\ r # t.room /\ ~rooms[r].active
                    /\ (Includes(rooms[r], t.userId)
                        \/ Includes(rooms[r], t.partnerId))
                    /\ OtherSideOf(d, r, {t.userId, t.partnerId}))
                   => ToldPartnerLeft(d)]_vars

\* connection c is InRoom: registered for its account, and its roomId names
\* an active room of that account
InRoom(c) ==
  /\ wsUserId[c] # 0 /\ clients[wsUserId[c]] = c
  /\ wsRoomId[c] # 0 /\ rooms[wsRoomId[c]].active
  /\ Includes(rooms[wsRoomId[c]], wsUserId[c])

\* C22: a frame whose type is not valid for the state of its connection is
\* answered with an error and changes nothing; in particular a join-waiting
\* frame taken from a connection that is InRoom gets an error frame, starts
\* no handler and leaves the Waiting Pool as it was.
PropC22 ==
  [][\A c \in Conns :
       (/\ InRoom(c) /\ events' # events
        /\ \E s \in Slots : /\ tasks[s].pc = "idle" /\ tasks'[s].pc # "idle"
                            /\ tasks'[s].kind = "join-waiting"
                            /\ tasks'[s].conn = c)
       => /\ \E i \in Frames(out', "error") : out'[i].to = c
          /\ waitingPool' = waitingPool]_vars

\* C23: a join-waiting, leave-waiting, next, message, signal or disconnect
\* frame of a connection without bound identity starts no handler; the step
\* that takes a frame without starting a handler sends at most one error
\* frame and leaves the Waiting Pool, the rooms and the registry unchanged.
PropC23 ==
  [][/\ \A s \in Slots :
          (tasks'[s].pc # "idle" /\ tasks'[s].kind # "auth")
          => wsUserId'[tasks'[s].conn] # 0
     /\ (events' # events /\ tasks' = tasks)
        => /\ waitingPool' = waitingPool
           /\ rooms' = rooms
           /\ clients' = clients
           /\ wsRoomId' = wsRoomId
           /\ \/ out' = <<>>
              \/ Len(out') = 1 /\ out'[1].type = "error"]_vars
\* a frame of a connection whose auth was rejected has been answered with
\* an error
WitC23 ==
  \E c \in Conns :
    /\ wsUserId[c] = 0 /\ isAuthenticated[c]
    /\ \A s \in Slots : tasks[s].conn # c
    /\ Len(out) = 1 /\ out[1].type = "error" /\ out[1].to = c
    /\ events > 0

\* slots a and b hold handlers of two chat messages of one connection, the
\* one in a sent first (messages are numbered in the order sent)
SentBefore(a, b) ==
  /\ tasks[a].kind = "message" /\ tasks[a].pc # "idle"
  /\ tasks[b].kind = "message" /\ tasks[b].pc # "idle"
  /\ tasks[a].conn = tasks[b].conn
  /\ tasks[a].text < tasks[b].text

PropC25 ==
  [][\A u \in Users :
       (/\ u \in waitingPool /\ u \notin waitingPool'
        /\ clients[u] # 0 /\ readyState[clients[u]] = "OPEN")
       => \E s \in Slots :
            \/ tasks'[s].pc = "mu_rm1" /\ tasks'[s].userId = u
            \/ tasks[s].pc = "mu_rm1" /\ tasks[s].partnerId = u
            \/ /\ tasks[s].pc = "idle" /\ tasks'[s].kind = "leave-waiting"
               /\ tasks'[s].userId = u
            \/ tasks[s].pc = "dc_online" /\ tasks[s].conn = clients[u]]_vars

\* C26: no step removes a room record, changes the participants of a
\* record, or makes an inactive room active; the active flag of a record
\* only ever goes from true to false.
PropC26 ==
  [][/\ Len(rooms') >= Len(rooms)
     /\ \A r \in 1..Len(rooms) :
          /\ rooms'[r].participants = rooms[r].participants
          /\ rooms'[r].active => rooms[r].active]_vars
\* a room closed earlier is closed again by the cleanup of a connection
\* whose roomId still names it, while a later room is active
WitC26 ==
  /\ Len(rooms) = 2 /\ ~rooms[1].active /\ rooms[2].active
  /\ \E s \in Slots : tasks[s].pc = "dc_close" /\ wsRoomId[tasks[s].conn] = 1

\* the registry holds no open connection for account p
Unreachable(p) == clients[p] = 0 \/ readyState[clients[p]] # "OPEN"

\* C27: when the handler of a message or signal has passed its checks and
\* the partner has no open registered connection, its last step writes to
\* no connection but the sender's: a message is echoed to the sender, a
\* signal produces no frame, no error is sent, and the Waiting Pool, the
\* rooms and the registry stay as they are.
PropC27 ==
  [][\A s \in Slots :
       LET t == tasks[s]
       IN  /\ (t.pc = "msg_create" /\ tasks'[s].pc = "idle"
               /\ Unreachable(t.partnerId))
              => /\ out' = Send(RelayEv(t.conn, "message", t))
                 /\ readyState[t.conn] = "OPEN" => Len(out') = 1
                 /\ waitingPool' = waitingPool /\ rooms' = rooms
                 /\ clients' = clients /\ wsRoomId' = wsRoomId
           /\ (t.pc = "sig_room" /\ tasks'[s].pc = "idle"
               /\ t.room # 0 /\ rooms[t.room].active
               /\ FindPartner(rooms[t.room], t.userId) # 0
               /\ Unreachable(FindPartner(rooms[t.room], t.userId)))
              => /\ out' = <<>>
                 /\ waitingPool' = waitingPool /\ rooms' = rooms
                 /\ clients' = clients /\ wsRoomId' = wsRoomId]_vars
\* a chat message has just been echoed to its sender alone, the partner
\* having no registered connection
WitC27 ==
  /\ Len(out) = 1 /\ out[1].type = "message" /\ out[1].to = out[1].from
  /\ out[1].id \in 1..Len(messages)
  /\ Unreachable(messages[out[1].id].receiverId)

\* whenever no handler is in progress, an account is marked online exactly
\* when the registry holds a connection for it
OnlineIffBound ==
  NoTask => \A u \in Users : isOnline[u] <=> clients[u] # 0

\* C28: at quiescent states the online mark follows the registry, and the
\* disconnect cleanup of a connection never marks offline, or unbinds, an
\* account whose registered connection is another, open connection.
PropC28 ==
  [][/\ OnlineIffBound'
     /\ \A u \in Users :
          (/\ clients[u] # 0 /\ readyState[clients[u]] = "OPEN"
           /\ \E s \in Slots :
                /\ tasks[s].pc = "idle" /\ tasks'[s].pc = "dc_online"
                /\ tasks'[s].conn # clients[u])
          => isOnline'[u] = isOnline[u]]_vars

\* C29: when the handler of a join-waiting or next frame that a connection
\* sent for its own identity ends, the step has sent that connection
\* 'waiting' and the identity is in the pool, or it has sent it 'match' and
\* the identity is a participant of the active room the frame names.
PropC29 ==
  [][\A s \in Slots :
       LET t == tasks[s]
       IN  (/\ t.kind \in {"join-waiting", "next"}
            /\ t.pc # "idle" /\ tasks'[s].pc = "idle"
            /\ readyState[t.conn] = "OPEN")
           => \/ /\ \E i \in Frames(out', "waiting") : out'[i].to = t.conn
                 /\ t.userId \in waitingPool'
              \/ \E i \in Frames(out', "match") :
                   /\ out'[i].to = t.conn
                   /\ rooms'[out'[i].roomId].active
                   /\ Includes(rooms'[out'[i].roomId], t.userId)]_vars

\* C30: whenever no handler is in progress, the roomId of every open
\* connection that is registered for its identity and has a roomId names an
\* active room whose participants include that identity.
InvC30 ==
  NoTask =>
    \A c \in Conns :
      (/\ wsRoomId[c] # 0 /\ readyState[c] = "OPEN"
       /\ wsUserId[c] # 0 /\ clients[wsUserId[c]] = c)
      => /\ rooms[wsRoomId[c]].active
         /\ Includes(rooms[wsRoomId[c]], wsUserId[c])

\* C31: whenever no handler is in progress, both participants of every
\* active room have a connection in the registry, and the roomId of each of
\* these connections is that room.
InvC31 ==
  NoTask =>
    \A r \in 1..Len(rooms) :
      rooms[r].active =>
        \A u \in Users :
          Includes(rooms[r], u) => clients[u] # 0 /\ wsRoomId[clients[u]] = r

\* C32: whenever no handler is in progress, every registry entry maps its
\* identity to a connection bound to that identity; and the last step of a
\* disconnect cleanup removes the registry entry of the connection's
\* identity only if the entry points to the connection being cleaned up.
PropC32 ==
  [][/\ NoTask' =>
          \A u \in Users : clients'[u] # 0 => wsUserId'[clients'[u]] = u
     /\ \A s \in Slots :
          LET t == tasks[s]
              u == wsUserId[t.conn]
          IN  (/\ t.kind \in {"disconnect", "close"}
               /\ t.pc # "idle" /\ tasks'[s].pc = "idle"
               /\ clients[u] # t.conn)
              => clients'[u] = clients[u]]_vars

\* C33: with handlers running one at a time, the Waiting Pool holds at most
\* one identity whenever no handler is in progress; a join-waiting handler
\* whose snapshot of the pool holds another identity goes on to matchUsers,
\* and once matchUsers has made its two removals neither the joiner nor the
\* identity it picked is in the pool.
PropC33 ==
  [][/\ NoTask' => Cardinality(waitingPool') <= 1
     /\ \A s \in Slots :
          LET t == tasks[s]
          IN  /\ (t.pc = "jw_snapshot" /\ tasks'[s] # t
                  /\ availableUsers(t) # {})
                 => /\ tasks'[s].pc = "mu_rm1"
                    /\ tasks'[s].partnerId \in availableUsers(t)
              /\ (t.pc = "mu_rm1" /\ tasks'[s].pc = "mu_rm2")
                 => /\ t.userId \notin waitingPool'
                    /\ t.partnerId \notin waitingPool'
                    /\ t.userId # t.partnerId]_vars
\* matchUsers has just taken the joiner and the one waiting identity out of
\* the pool
WitC33 ==
  \E s \in Slots :
    /\ tasks[s].kind = "join-waiting" /\ tasks[s].pc = "mu_rm2"
    /\ tasks[s].snap = {tasks[s].userId, tasks[s].partnerId}
    /\ waitingPool = {}

\* C34: when users log in once and only send join-waiting, with handlers
\* that interleave at their awaits, then once every handler has returned each
\* connection has been sent at most one match frame, and the roomId of a
\* connection that was sent one names an active room that holds its account
\* and is the only active room that does.
InvC34 ==
  NoTask =>
    \A c \in Conns :
      /\ matchCount[c] <= 1
      /\ matchCount[c] >= 1 =>
           /\ wsRoomId[c] \in 1..Len(rooms)
           /\ rooms[wsRoomId[c]].active
           /\ Includes(rooms[wsRoomId[c]], wsUserId[c])
           /\ getRoomByParticipant(wsUserId[c]) = {wsRoomId[c]}

\* C35: a join-waiting, leave-waiting, next, message or signal handler is
\* started only for the identity bound to the connection the frame came in
\* on; a frame that is taken without starting a handler and without closing
\* a transport is answered with exactly one error frame, and the step changes
\* neither the Waiting Pool, the rooms, the registry, the stored messages nor
\* a field of any connection.
PropC35 ==
  [][/\ \A s \in Slots :
          (/\ tasks[s].pc = "idle" /\ tasks'[s].pc # "idle"
           /\ tasks'[s].kind \in {"join-waiting", "leave-waiting", "next",
                                  "message", "signal"})
          => /\ wsUserId[tasks'[s].conn] # 0
             /\ tasks'[s].userId = wsUserId[tasks'[s].conn]
     /\ (events' # events /\ tasks' = tasks /\ readyState' = readyState)
        => /\ Len(out') = 1 /\ out'[1].type = "error"
           /\ waitingPool' = waitingPool
           /\ rooms' = rooms
           /\ clients' = clients
           /\ messages' = messages
           /\ isOnline' = isOnline
           /\ wsUserId' = wsUserId
           /\ wsRoomId' = wsRoomId
           /\ isAuthenticated' = isAuthenticated]_vars
\* a bound connection has sent a join-waiting, leave-waiting or next frame
\* that names another identity, while that identity or its own is waiting or
\* in a room: the answer is the error of the identity check
WitC35 ==
  \E c \in Conns :
    /\ wsUserId[c] # 0
    /\ NoTask
    /\ Len(out) = 1 /\ out[1].to = c
    /\ out[1].type = "error" /\ out[1].msg = "Authentication required"
    /\ waitingPool # {}
    /\ \E r \in 1..Len(rooms) : rooms[r].active

\* the step is taken by the message or signal handler in slot s: the frame
\* arrives and the handler runs to its first await, or the handler resumes
RelayStep(s) ==
  /\ tasks'[s] # tasks[s]
  /\ \/ tasks[s].pc # "idle" /\ tasks[s].kind \in {"message", "signal"}
     \/ tasks[s].pc = "idle" /\ tasks'[s].kind \in {"message", "signal"}

\* C36: no step of a message or signal handler changes the Waiting Pool, a
\* room record, the registry, or the roomId or bound identity of a
\* connection; the stored messages change only in the step of a message
\* handler that follows its room lookup, which appends one record.
PropC36 ==
  [][\A s \in Slots :
       RelayStep(s)
       => /\ waitingPool' = waitingPool
          /\ rooms' = rooms
          /\ clients' = clients
          /\ wsRoomId' = wsRoomId
          /\ wsUserId' = wsUserId
          /\ isOnline' = isOnline
          /\ \/ messages' = messages
             \/ /\ tasks[s].kind = "message" /\ tasks[s].pc = "msg_room"
                /\ Len(messages') = Len(messages) + 1
                /\ SubSeq(messages', 1, Len(messages)) = messages]_vars
\* a signal has been forwarded to the partner after a chat message of the
\* room was stored
WitC36 ==
  /\ NoTask
  /\ Len(messages) = 1
  /\ \E i \in 1..Len(out) :
       /\ out[i].type = "signal"
       /\ out[i].to # out[i].from
       /\ wsRoomId[out[i].to] = wsRoomId[out[i].from]

\* the account of handler t: next names it in the frame, the disconnect
\* cleanup reads ws.userId
Leaver(t) == IF t.kind = "next" THEN t.userId ELSE wsUserId[t.conn]

\* C37: in the step in which the next or disconnect handler of U1, having
\* closed the room it shared with U2, notifies U2's connection, which is
\* registered, open and still holds the room's id, U2 is left Idle: its
\* roomId is cleared and U2 is not in the Waiting Pool; and the join-waiting
\* that handleNext then runs for U1 does not pair U1 with a user whose
\* connection still holds the id of the closed room.
PropC37 ==
  [][\A s \in Slots : \A d \in Conns :
       LET t == tasks[s]
       IN  /\ (/\ \/ t.pc = "nx_room" /\ tasks'[s].pc # "nx_room"
                  \/ t.pc = "dc_room" /\ tasks'[s].pc = "idle"
               /\ t.found # 0
               /\ OtherSideOf(d, t.found, {Leaver(t)}))
              => /\ wsRoomId'[d] = 0
                 /\ wsUserId[d] \notin waitingPool'
           /\ (/\ t.kind = "next" /\ t.pc = "jw_snapshot"
               /\ tasks'[s].pc = "mu_rm1" /\ t.found # 0
               /\ OtherSideOf(d, t.found, {Leaver(t)}))
              => tasks'[s].partnerId # wsUserId[d]]_vars

====
